---- MODULE Spec2Model ----
(***************************************************************************)
(* The order-splitting and transaction-lifecycle engine of                 *)
(* src/src/controllers/transaction.js.                                     *)
(*                                                                         *)
(* Every handler is an async function: the code between two awaits runs    *)
(* without interruption (one JavaScript thread), and every awaited         *)
(* database operation is atomic.  One step of the model is therefore one   *)
(* awaited database operation together with the synchronous code that      *)
(* follows it up to the next await.  A mongoose save() of a loaded         *)
(* document writes the value the handler computed from its own copy of the *)
(* document ($set of the modified path), whatever the stored value is by   *)
(* then.  Any awaited operation may reject; the handler's catch block then *)
(* answers 500 and the handler ends.                                       *)
(***************************************************************************)
EXTENDS Integers, Sequences, FiniteSets, TLC

----------------------------------------------------------------------------
(* Bounds of the model *)

\* request slots (concurrent or successive calls) of the order specifications
MaxOrders == 2
\* request slots of the lifecycle specifications
MaxCalls == 3
\* shop groups in one checkout
MaxShops == 2
\* line items in one shop group
MaxItems == 2
\* largest requested quantity of a line item
MaxQty == 2
\* transactions stored when the lifecycle specifications start
MaxTx == 1

----------------------------------------------------------------------------
(* Reference data: the collections the handlers read *)

Products == {"p1", "p2"}
\* "px" is an id that resolves to no product
ProductIds == Products \cup {"px"}
Price == [p \in Products |-> IF p = "p1" THEN 4 ELSE 8]
InitStock == [p \in Products |-> IF p = "p1" THEN MaxQty ELSE MaxQty - 1]

Couriers == {"c1"}
CourierIds == Couriers \cup {"cx"}
Cost == [c \in Couriers |-> 2]

NoVoucher == "none"
Vouchers == {"v1", "v2", "v3"}
VoucherIds == Vouchers \cup {"vx"}
\* the time of the calls; voucher expirations are relative to it
Now == 10
\* v1 is usable (it expires exactly now: the comparison is strict),
\* v2 is inactive, v3 has expired
VoucherRec ==
  [v \in Vouchers |->
     CASE v = "v1" -> [isActive |-> TRUE,  expired |-> Now,     minPurchase |-> 8, discount |-> 50]
       [] v = "v2" -> [isActive |-> FALSE, expired |-> Now + 1, minPurchase |-> 0, discount |-> 50]
       [] v = "v3" -> [isActive |-> TRUE,  expired |-> Now - 1, minPurchase |-> 0, discount |-> 50]]
InitVoucherQty == [v \in Vouchers |-> 1]

PaymentMethods == {"pm1", "pm2"}
PaymentIds == PaymentMethods \cup {"pmx"}
InitCredit == [m \in PaymentMethods |-> IF m = "pm1" THEN 20 ELSE 6]

\* shops are numbered; the k-th group of a checkout is the k-th shop's
Shops == 1..MaxShops
Users == {"u1", "u2", "u3"}
\* Shop.findOne({ ownerId }): u1 owns shop 1, u2 owns shop 2, u3 owns no shop
NoShop == 0
ShopOf == [u \in Users |-> CASE u = "u1" -> 1 [] u = "u2" -> 2 [] OTHER -> NoShop]

Items == [productId : ProductIds, quantity : 1..MaxQty]
ItemLists == UNION {[1..n -> Items] : n \in 1..MaxItems}
ShopGroups(k) == [shopId : {k}, courierId : CourierIds, products : ItemLists]

----------------------------------------------------------------------------
(* State *)

VARIABLES
  stock,         \* Product.stock, by product
  voucherQty,    \* Voucher.quantity, by voucher
  credit,        \* PaymentMethod.credit, by payment method
  transactions,  \* the Transaction collection; a document's _id is its position
  statuses,      \* the TransactionStatus collection; _id is the position
  req            \* the handler invocations: arguments, position, local variables

vars == <<stock, voucherQty, credit, transactions, statuses, req>>
db == <<stock, voucherQty, credit, transactions, statuses>>

NoDoc == 0
NoGroup == [shopId |-> NoShop, courierId |-> "cx", products |-> <<>>]
NoSnap == [stock |-> <<>>, voucherQty |-> <<>>, transactions |-> <<>>, statuses |-> <<>>]

\* A slot no call has used yet
Idle ==
  [op |-> "idle", pc |-> "idle", result |-> "",
   \* createTransaction: req.body and locals
   paymentId |-> "", voucherId |-> NoVoucher, k |-> 0,
   shop |-> NoGroup, productRecords |-> <<>>, totalPrice |-> 0,
   voucher |-> 0, newTransaction |-> NoDoc, newStatus |-> NoDoc, i |-> 0,
   out |-> <<>>,
   \* pay / process / complete: req.params, req.user and locals
   transactionId |-> NoDoc, userId |-> "", shopId |-> NoShop,
   transactionStatus |-> NoDoc, paymentMethod |-> 0,
   \* the stored state when the current shop group began
   snap |-> NoSnap]

Slots == DOMAIN req
InFlight(r) == req[r].pc \notin {"idle", "done"}
\* slots are taken in order
MayStart(r) == req[r].pc = "idle" /\ (IF r = 1 THEN TRUE ELSE req[r - 1].pc # "idle")
\* no other call is between its first and its last step
Alone(r) == \A q \in Slots \ {r} : ~InFlight(q)

Snapshot ==
  [stock |-> stock, voucherQty |-> voucherQty,
   transactions |-> transactions, statuses |-> statuses]

\* return res.status(...).json(...): the handler ends with this answer; of
\* its variables the model keeps the answer, the voucher the call named and
\* the pairs pushed so far
Respond(r, result) ==
  [Idle EXCEPT !.op = req[r].op, !.pc = "done", !.result = result,
               !.voucherId = req[r].voucherId, !.out = req[r].out]

----------------------------------------------------------------------------
(* createTransaction *)

RECURSIVE Subtotal(_, _)
\* lines 34-43: the sum of price * quantity over the first n line items
Subtotal(products, n) ==
  IF n = 0 THEN 0
  ELSE Subtotal(products, n - 1) + Price[products[n].productId] * products[n].quantity

\* line 57: (voucher.discount / 100) * totalPrice.  The model's percentages
\* and prices keep the product a whole number, so the double arithmetic of
\* the code is exact on them.
Discount(v, totalPrice) == (VoucherRec[v].discount * totalPrice) \div 100

\* lines 62-63
AfterDiscount(totalPrice, discount) ==
  IF totalPrice - discount > 0 THEN totalPrice - discount ELSE 0

\* line 29: the resolved records are compared with the number of line items
ProductsMissing(products, productRecords) ==
  Cardinality(DOMAIN productRecords) # Len(products)

\* line 37 with the comparison turned around
StockShortReversed(productRecords, item) ==
  productRecords[item.productId] > item.quantity

\* line 37 left out: no line item is ever found short
StockShortNever(productRecords, item) == FALSE

\* line 37
StockShort(productRecords, item) == productRecords[item.productId] < item.quantity

\* line 49 without the test of voucher.expired
VoucherUnusableIgnoringExpiry(v) ==
  \/ v \notin Vouchers
  \/ ~VoucherRec[v].isActive

\* line 49; no test of voucher.quantity
VoucherUnusable(v) ==
  \/ v \notin Vouchers
  \/ ~VoucherRec[v].isActive
  \/ VoucherRec[v].expired < Now

\* line 52
BelowMinPurchase(v, totalPrice) == totalPrice < VoucherRec[v].minPurchase

\* lines 10-20: the call arrives.  req.body.shops is read by the for-of loop
\* one group at a time, so the model draws group k, and whether there is a
\* group k + 1, when the loop gets there.  paymentId is stored and never read.
createTransaction(r) ==
  /\ MayStart(r)
  /\ \E v \in VoucherIds \cup {NoVoucher} :
       req' = [req EXCEPT ![r] =
                 [Idle EXCEPT !.op = "create", !.pc = "shopLoop", !.k = 1,
                              !.paymentId = "pm1", !.voucherId = v]]
  /\ UNCHANGED db

\* lines 27-47 for the group `shop`: Product.find, the count check, the
\* stock checks, the subtotal
FindProducts(r, shop) ==
  LET products == shop.products
      productIds == {products[j].productId : j \in 1..Len(products)}
      productRecords == [p \in productIds \cap Products |-> stock[p]]
      here == [req[r] EXCEPT !.shop = shop, !.productRecords = productRecords]
  IN  IF ProductsMissing(products, productRecords)
        THEN Respond(r, "ProductNotFound")
      ELSE IF \E j \in 1..Len(products) : StockShort(productRecords, products[j])
        THEN Respond(r, "InsufficientStock")
      ELSE IF req[r].voucherId # NoVoucher
        THEN [here EXCEPT !.totalPrice = Subtotal(products, Len(products)),
                          !.pc = "findVoucher"]
      ELSE [here EXCEPT !.totalPrice =
                           AfterDiscount(Subtotal(products, Len(products)), 0),
                        !.pc = "findCourier"]

\* lines 22-26: the loop takes the next group of req.body.shops and sends
\* Product.find; snap records the stored state at that moment
shopLoop(r) ==
  /\ req[r].op = "create" /\ req[r].pc = "shopLoop"
  /\ \E shop \in ShopGroups(req[r].k) :
       req' = [req EXCEPT ![r] =
                 [@ EXCEPT !.shop = shop, !.snap = Snapshot, !.pc = "findProducts"]]
  /\ UNCHANGED db

\* lines 27-47: Product.find answers
findProducts(r) ==
  /\ req[r].op = "create" /\ req[r].pc = "findProducts"
  /\ req' = [req EXCEPT ![r] = FindProducts(r, req[r].shop)]
  /\ UNCHANGED db

\* lines 22-47 in one step: the group is taken and Product.find answers
shopLoopFindProducts(r) ==
  /\ req[r].op = "create" /\ req[r].pc = "shopLoop"
  /\ \E shop \in ShopGroups(req[r].k) :
       req' = [req EXCEPT ![r] = FindProducts(r, shop)]
  /\ UNCHANGED db

\* lines 48-58: Voucher.findById and the voucher checks
findVoucher(r) ==
  /\ req[r].op = "create" /\ req[r].pc = "findVoucher"
  /\ LET v == req[r].voucherId
     IN  req' = [req EXCEPT ![r] =
           IF VoucherUnusable(v) THEN Respond(r, "VoucherInvalid")
           ELSE IF BelowMinPurchase(v, req[r].totalPrice)
             THEN Respond(r, "VoucherThresholdNotMet")
           ELSE [req[r] EXCEPT !.voucher = voucherQty[v] - 1, !.pc = "saveVoucher"]]
  /\ UNCHANGED db

\* lines 59-63: voucher.save(), then the discount is taken off
saveVoucher(r) ==
  /\ req[r].op = "create" /\ req[r].pc = "saveVoucher"
  /\ voucherQty' = [voucherQty EXCEPT ![req[r].voucherId] = req[r].voucher]
  /\ req' = [req EXCEPT ![r] =
       [@ EXCEPT !.totalPrice =
                    AfterDiscount(@, Discount(req[r].voucherId, req[r].totalPrice)),
                 !.pc = "findCourier"]]
  /\ UNCHANGED <<stock, credit, transactions, statuses>>

\* lines 66-85 with a rollback added to the 404 of line 68: the transactions
\* and statuses the call stored for its earlier groups are removed
findCourierRollingBack(r) ==
  /\ req[r].op = "create" /\ req[r].pc = "findCourier"
  /\ IF req[r].shop.courierId \notin Couriers
       THEN /\ req' = [req EXCEPT ![r] = Respond(r, "CourierNotFound")]
            /\ transactions' = SubSeq(transactions, 1, Len(transactions) - Len(req[r].out))
            /\ statuses' = SubSeq(statuses, 1, Len(statuses) - Len(req[r].out))
       ELSE /\ req' = [req EXCEPT ![r] =
                 [@ EXCEPT !.totalPrice = @ + Cost[req[r].shop.courierId],
                           !.pc = "saveTransaction"]]
            /\ UNCHANGED <<transactions, statuses>>
  /\ UNCHANGED <<stock, voucherQty, credit>>

\* lines 66-85: Courier.findById, the courier cost
findCourier(r) ==
  /\ req[r].op = "create" /\ req[r].pc = "findCourier"
  /\ req' = [req EXCEPT ![r] =
       IF req[r].shop.courierId \notin Couriers THEN Respond(r, "CourierNotFound")
       ELSE [@ EXCEPT !.totalPrice = @ + Cost[req[r].shop.courierId],
                      !.pc = "saveTransaction"]]
  /\ UNCHANGED db

\* lines 75-94: newTransaction.save()
saveTransaction(r) ==
  /\ req[r].op = "create" /\ req[r].pc = "saveTransaction"
  /\ transactions' = Append(transactions,
       [shopId |-> req[r].shop.shopId, paymentId |-> req[r].paymentId,
        voucherId |-> req[r].voucherId, courierId |-> req[r].shop.courierId,
        products |-> req[r].shop.products, totalPrice |-> req[r].totalPrice])
  /\ req' = [req EXCEPT ![r] =
       [@ EXCEPT !.newTransaction = Len(transactions) + 1, !.pc = "saveStatus"]]
  /\ UNCHANGED <<stock, voucherQty, credit, statuses>>

\* lines 90-101: newStatus.save()
saveStatus(r) ==
  /\ req[r].op = "create" /\ req[r].pc = "saveStatus"
  /\ statuses' = Append(statuses,
       [transactionId |-> req[r].newTransaction, status |-> "Not Paid",
        shopId |-> req[r].shop.shopId])
  /\ req' = [req EXCEPT ![r] =
       [@ EXCEPT !.newStatus = Len(statuses) + 1, !.i = 1, !.pc = "saveStock"]]
  /\ UNCHANGED <<stock, voucherQty, credit, transactions>>

\* lines 99-112: productRecord.stock -= quantity; productRecord.save(); after
\* the last line item the pair is pushed, and the loop goes to the next group
\* or, after the last group, the call answers 201
saveStock(r) ==
  /\ req[r].op = "create" /\ req[r].pc = "saveStock"
  /\ LET item == req[r].shop.products[req[r].i]
         left == req[r].productRecords[item.productId] - item.quantity
         pushed == [req[r] EXCEPT
                      !.out = Append(@, <<req[r].newTransaction, req[r].newStatus>>)]
     IN  /\ stock' = [stock EXCEPT ![item.productId] = left]
         /\ IF req[r].i < Len(req[r].shop.products)
              THEN req' = [req EXCEPT ![r] =
                     [@ EXCEPT !.productRecords[item.productId] = left, !.i = @ + 1]]
              ELSE \/ /\ req[r].k < MaxShops
                      /\ req' = [req EXCEPT ![r] =
                           [pushed EXCEPT !.k = @ + 1, !.pc = "shopLoop",
                                          !.shop = NoGroup, !.productRecords = <<>>,
                                          !.totalPrice = 0, !.voucher = 0,
                                          !.newTransaction = NoDoc,
                                          !.newStatus = NoDoc, !.i = 0,
                                          !.snap = NoSnap]]
                   \/ req' = [req EXCEPT ![r] =
                           [Idle EXCEPT !.op = "create", !.pc = "done",
                                        !.result = "Created",
                                        !.voucherId = req[r].voucherId,
                                        !.out = pushed.out]]
  /\ UNCHANGED <<voucherQty, credit, transactions, statuses>>

\* lines 113-115 (and 162-165, 205-208, 287-290): the awaited operation
\* rejects, nothing is written, the catch block answers 500
serverError(r) ==
  /\ InFlight(r)
  /\ req' = [req EXCEPT ![r] = Respond(r, "ServerError")]
  /\ UNCHANGED db

----------------------------------------------------------------------------
(* payTransaction, processTransaction, completeTransaction *)

\* a transaction id that resolves to no document
NoSuchTransaction == Len(transactions) + 1
TransactionIds == 1..NoSuchTransaction

\* TransactionStatus.findOne({ transactionId }): the first matching document
FindStatus(t) ==
  LET found == {d \in 1..Len(statuses) : statuses[d].transactionId = t}
  IN  IF found = {} THEN NoDoc
      ELSE CHOOSE d \in found : \A e \in found : d <= e

\* line 128
AlreadyPaid(status) == status = "Paid"
\* line 132
NotPayable(status) == status # "Not Paid"
\* line 150 with the comparison turned around
CreditShortReversed(available, totalPrice) == available > totalPrice
\* line 150
CreditShort(available, totalPrice) == available < totalPrice
\* line 197 letting a Not Paid transaction through as well
NotProcessableLax(status) == status \notin {"Paid", "Not Paid"}
\* line 197
NotProcessable(status) == status # "Paid"
\* line 267
AlreadyCompleted(status) == status = "Completed"
\* line 271
NotCompletable(status) == status # "Processed"

\* the handler ends with this answer; the model keeps the call's arguments
RespondCall(r, result) ==
  [Idle EXCEPT !.op = req[r].op, !.pc = "done", !.result = result,
               !.transactionId = req[r].transactionId,
               !.paymentId = req[r].paymentId, !.userId = req[r].userId]

\* transactionStatus.save(): the status the handler set is written
SaveStatus(r, status) ==
  statuses' = [statuses EXCEPT ![req[r].transactionStatus].status = status]

\* lines 118-120: the call arrives
payTransaction(r) ==
  /\ MayStart(r)
  /\ \E t \in TransactionIds, m \in PaymentIds :
       req' = [req EXCEPT ![r] =
                 [Idle EXCEPT !.op = "pay", !.pc = "findStatus",
                              !.transactionId = t, !.paymentId = m]]
  /\ UNCHANGED db

\* lines 122-134 without the two status tests of lines 128 and 132
payFindStatusUnchecked(r) ==
  /\ req[r].op = "pay" /\ req[r].pc = "findStatus"
  /\ LET d == FindStatus(req[r].transactionId)
     IN  req' = [req EXCEPT ![r] =
           IF d = NoDoc THEN RespondCall(r, "StatusNotFound")
           ELSE [@ EXCEPT !.transactionStatus = d, !.pc = "findTransaction"]]
  /\ UNCHANGED db

\* lines 122-134
payFindStatus(r) ==
  /\ req[r].op = "pay" /\ req[r].pc = "findStatus"
  /\ LET d == FindStatus(req[r].transactionId)
     IN  req' = [req EXCEPT ![r] =
           IF d = NoDoc THEN RespondCall(r, "StatusNotFound")
           ELSE IF AlreadyPaid(statuses[d].status) THEN RespondCall(r, "AlreadyPaid")
           ELSE IF NotPayable(statuses[d].status) THEN RespondCall(r, "MustBeNotPaid")
           ELSE [@ EXCEPT !.transactionStatus = d, !.pc = "findTransaction"]]
  /\ UNCHANGED db

\* lines 136-142
payFindTransaction(r) ==
  /\ req[r].op = "pay" /\ req[r].pc = "findTransaction"
  /\ req' = [req EXCEPT ![r] =
       IF req[r].transactionId \notin 1..Len(transactions)
         THEN RespondCall(r, "TransactionNotValid")
       ELSE [@ EXCEPT !.totalPrice = transactions[req[r].transactionId].totalPrice,
                      !.pc = "findPayment"]]
  /\ UNCHANGED db

\* lines 144-154
payFindPayment(r) ==
  /\ req[r].op = "pay" /\ req[r].pc = "findPayment"
  /\ LET m == req[r].paymentId
     IN  req' = [req EXCEPT ![r] =
           IF m \notin PaymentMethods THEN RespondCall(r, "PaymentNotFound")
           ELSE IF CreditShort(credit[m], req[r].totalPrice)
             THEN RespondCall(r, "InsufficientCredit")
           ELSE [@ EXCEPT !.paymentMethod = credit[m] - req[r].totalPrice,
                          !.pc = "savePayment"]]
  /\ UNCHANGED db

\* lines 155-157 debiting the payment method recorded on the transaction
paySavePaymentRecorded(r) ==
  /\ req[r].op = "pay" /\ req[r].pc = "savePayment"
  /\ credit' = [credit EXCEPT ![transactions[req[r].transactionId].paymentId] =
                                 @ - req[r].totalPrice]
  /\ req' = [req EXCEPT ![r] = [@ EXCEPT !.pc = "saveStatus"]]
  /\ UNCHANGED <<stock, voucherQty, transactions, statuses>>

\* lines 155-157 with the save of line 155 left out: the debit stays in the
\* handler's copy of the payment method
paySavePaymentUnwritten(r) ==
  /\ req[r].op = "pay" /\ req[r].pc = "savePayment"
  /\ req' = [req EXCEPT ![r] = [@ EXCEPT !.pc = "saveStatus"]]
  /\ UNCHANGED db

\* lines 155-157: paymentMethod.save()
paySavePayment(r) ==
  /\ req[r].op = "pay" /\ req[r].pc = "savePayment"
  /\ credit' = [credit EXCEPT ![req[r].paymentId] = req[r].paymentMethod]
  /\ req' = [req EXCEPT ![r] = [@ EXCEPT !.pc = "saveStatus"]]
  /\ UNCHANGED <<stock, voucherQty, transactions, statuses>>

\* lines 158-160: transactionStatus.save()
paySaveStatus(r) ==
  /\ req[r].op = "pay" /\ req[r].pc = "saveStatus"
  /\ SaveStatus(r, "Paid")
  /\ req' = [req EXCEPT ![r] = RespondCall(r, "Paid")]
  /\ UNCHANGED <<stock, voucherQty, credit, transactions>>

\* lines 168-172: the call arrives
processTransaction(r) ==
  /\ MayStart(r)
  /\ \E t \in TransactionIds, u \in Users :
       req' = [req EXCEPT ![r] =
                 [Idle EXCEPT !.op = "process", !.pc = "findShop",
                              !.transactionId = t, !.userId = u]]
  /\ UNCHANGED db

\* lines 173-179: Shop.findOne({ ownerId })
processFindShop(r) ==
  /\ req[r].op = "process" /\ req[r].pc = "findShop"
  /\ req' = [req EXCEPT ![r] =
       IF ShopOf[req[r].userId] = NoShop THEN RespondCall(r, "ShopNotFound")
       ELSE [@ EXCEPT !.shopId = ShopOf[req[r].userId], !.pc = "findTransaction"]]
  /\ UNCHANGED db

\* lines 181-189 without the comparison of line 187
processFindTransactionAnyShop(r) ==
  /\ req[r].op = "process" /\ req[r].pc = "findTransaction"
  /\ req' = [req EXCEPT ![r] =
       IF req[r].transactionId \notin 1..Len(transactions)
         THEN RespondCall(r, "TransactionNotFound")
       ELSE [@ EXCEPT !.pc = "findStatus"]]
  /\ UNCHANGED db

\* lines 181-189
processFindTransaction(r) ==
  /\ req[r].op = "process" /\ req[r].pc = "findTransaction"
  /\ req' = [req EXCEPT ![r] =
       IF req[r].transactionId \notin 1..Len(transactions)
         THEN RespondCall(r, "TransactionNotFound")
       ELSE IF transactions[req[r].transactionId].shopId # req[r].shopId
         THEN RespondCall(r, "Forbidden")
       ELSE [@ EXCEPT !.pc = "findStatus"]]
  /\ UNCHANGED db

\* lines 191-201
processFindStatus(r) ==
  /\ req[r].op = "process" /\ req[r].pc = "findStatus"
  /\ LET d == FindStatus(req[r].transactionId)
     IN  req' = [req EXCEPT ![r] =
           IF d = NoDoc THEN RespondCall(r, "StatusNotFound")
           ELSE IF NotProcessable(statuses[d].status) THEN RespondCall(r, "MustBePaid")
           ELSE [@ EXCEPT !.transactionStatus = d, !.pc = "saveStatus"]]
  /\ UNCHANGED db

\* lines 202-204
processSaveStatus(r) ==
  /\ req[r].op = "process" /\ req[r].pc = "saveStatus"
  /\ SaveStatus(r, "Processed")
  /\ req' = [req EXCEPT ![r] = RespondCall(r, "Processed")]
  /\ UNCHANGED <<stock, voucherQty, credit, transactions>>

\* lines 257-259: the call arrives
completeTransaction(r) ==
  /\ MayStart(r)
  /\ \E t \in TransactionIds :
       req' = [req EXCEPT ![r] =
                 [Idle EXCEPT !.op = "complete", !.pc = "findStatus",
                              !.transactionId = t]]
  /\ UNCHANGED db

\* lines 261-273
completeFindStatus(r) ==
  /\ req[r].op = "complete" /\ req[r].pc = "findStatus"
  /\ LET d == FindStatus(req[r].transactionId)
     IN  req' = [req EXCEPT ![r] =
           IF d = NoDoc THEN RespondCall(r, "StatusNotFound")
           ELSE IF AlreadyCompleted(statuses[d].status)
             THEN RespondCall(r, "AlreadyCompleted")
           ELSE IF NotCompletable(statuses[d].status)
             THEN RespondCall(r, "MustBeProcessed")
           ELSE [@ EXCEPT !.transactionStatus = d, !.pc = "findTransaction"]]
  /\ UNCHANGED db

\* lines 275-282
completeFindTransaction(r) ==
  /\ req[r].op = "complete" /\ req[r].pc = "findTransaction"
  /\ req' = [req EXCEPT ![r] =
       IF req[r].transactionId \notin 1..Len(transactions)
         THEN RespondCall(r, "TransactionNotValid")
       ELSE [@ EXCEPT !.pc = "saveStatus"]]
  /\ UNCHANGED db

\* lines 283-285
completeSaveStatus(r) ==
  /\ req[r].op = "complete" /\ req[r].pc = "saveStatus"
  /\ SaveStatus(r, "Completed")
  /\ req' = [req EXCEPT ![r] = RespondCall(r, "Completed")]
  /\ UNCHANGED <<stock, voucherQty, credit, transactions>>

\* lines 162-165, 205-208, 287-290: the awaited operation rejects, nothing is
\* written, the catch block answers 500
callServerError(r) ==
  /\ InFlight(r)
  /\ req' = [req EXCEPT ![r] = RespondCall(r, "ServerError")]
  /\ UNCHANGED db

----------------------------------------------------------------------------
(* Specifications of the order engine *)

InitDb ==
  /\ stock = InitStock
  /\ voucherQty = InitVoucherQty
  /\ credit = InitCredit

InitOrders ==
  /\ InitDb
  /\ transactions = <<>>
  /\ statuses = <<>>
  /\ req = [r \in 1..MaxOrders |-> Idle]

\* checkouts whose database operations interleave
NextOrders ==
  \/ \E r \in Slots : createTransaction(r)
  \/ \E r \in Slots : shopLoopFindProducts(r)
  \/ \E r \in Slots : findVoucher(r)
  \/ \E r \in Slots : saveVoucher(r)
  \/ \E r \in Slots : findCourier(r)
  \/ \E r \in Slots : saveTransaction(r)
  \/ \E r \in Slots : saveStatus(r)
  \/ \E r \in Slots : saveStock(r)
  \/ \E r \in Slots : serverError(r)
SpecOrders == InitOrders /\ [][NextOrders]_vars

\* checkouts one after the other
NextOrdersSeq ==
  \/ \E r \in Slots : Alone(r) /\ createTransaction(r)
  \/ \E r \in Slots : Alone(r) /\ shopLoop(r)
  \/ \E r \in Slots : Alone(r) /\ findProducts(r)
  \/ \E r \in Slots : Alone(r) /\ findVoucher(r)
  \/ \E r \in Slots : Alone(r) /\ saveVoucher(r)
  \/ \E r \in Slots : Alone(r) /\ findCourier(r)
  \/ \E r \in Slots : Alone(r) /\ saveTransaction(r)
  \/ \E r \in Slots : Alone(r) /\ saveStatus(r)
  \/ \E r \in Slots : Alone(r) /\ saveStock(r)
  \/ \E r \in Slots : Alone(r) /\ serverError(r)
SpecOrdersSeq == InitOrders /\ [][NextOrdersSeq]_vars

----------------------------------------------------------------------------
(* Specifications of the lifecycle *)

\* The stored state the lifecycle calls start from: MaxTx checkouts of one
\* shop group each (shop 1, courier c1, no voucher, one line item of p1) have
\* been created, every one still Not Paid.
SeedProducts == {<<[productId |-> "p1", quantity |-> q]>> : q \in 1..MaxQty}
SeedTransaction(products) ==
  [shopId |-> 1, paymentId |-> "pm1", voucherId |-> NoVoucher,
   courierId |-> "c1", products |-> products,
   totalPrice |-> AfterDiscount(Subtotal(products, Len(products)), 0) + Cost["c1"]]

InitLifecycle ==
  /\ voucherQty = InitVoucherQty
  /\ credit = InitCredit
  /\ \E seeds \in [1..MaxTx -> SeedProducts] :
       /\ transactions = [t \in 1..MaxTx |-> SeedTransaction(seeds[t])]
       /\ stock = [p \in Products |->
                     InitStock[p] -
                       (IF p = "p1" THEN
                          LET RECURSIVE Taken(_)
                              Taken(n) == IF n = 0 THEN 0
                                          ELSE Taken(n - 1) + seeds[n][1].quantity
                          IN  Taken(MaxTx)
                        ELSE 0)]
  /\ statuses = [t \in 1..MaxTx |->
                   [transactionId |-> t, status |-> "Not Paid", shopId |-> 1]]
  /\ req = [r \in 1..MaxCalls |-> Idle]

\* lifecycle calls whose database operations interleave
NextLifecycle ==
  \/ \E r \in Slots : payTransaction(r)
  \/ \E r \in Slots : payFindStatus(r)
  \/ \E r \in Slots : payFindTransaction(r)
  \/ \E r \in Slots : payFindPayment(r)
  \/ \E r \in Slots : paySavePayment(r)
  \/ \E r \in Slots : paySaveStatus(r)
  \/ \E r \in Slots : processTransaction(r)
  \/ \E r \in Slots : processFindShop(r)
  \/ \E r \in Slots : processFindTransaction(r)
  \/ \E r \in Slots : processFindStatus(r)
  \/ \E r \in Slots : processSaveStatus(r)
  \/ \E r \in Slots : completeTransaction(r)
  \/ \E r \in Slots : completeFindStatus(r)
  \/ \E r \in Slots : completeFindTransaction(r)
  \/ \E r \in Slots : completeSaveStatus(r)
  \/ \E r \in Slots : callServerError(r)
SpecLifecycle == InitLifecycle /\ [][NextLifecycle]_vars

\* lifecycle calls one after the other
NextLifecycleSeq ==
  \/ \E r \in Slots : Alone(r) /\ payTransaction(r)
  \/ \E r \in Slots : Alone(r) /\ payFindStatus(r)
  \/ \E r \in Slots : Alone(r) /\ payFindTransaction(r)
  \/ \E r \in Slots : Alone(r) /\ payFindPayment(r)
  \/ \E r \in Slots : Alone(r) /\ paySavePayment(r)
  \/ \E r \in Slots : Alone(r) /\ paySaveStatus(r)
  \/ \E r \in Slots : Alone(r) /\ processTransaction(r)
  \/ \E r \in Slots : Alone(r) /\ processFindShop(r)
  \/ \E r \in Slots : Alone(r) /\ processFindTransaction(r)
  \/ \E r \in Slots : Alone(r) /\ processFindStatus(r)
  \/ \E r \in Slots : Alone(r) /\ processSaveStatus(r)
  \/ \E r \in Slots : Alone(r) /\ completeTransaction(r)
  \/ \E r \in Slots : Alone(r) /\ completeFindStatus(r)
  \/ \E r \in Slots : Alone(r) /\ completeFindTransaction(r)
  \/ \E r \in Slots : Alone(r) /\ completeSaveStatus(r)
  \/ \E r \in Slots : Alone(r) /\ callServerError(r)
SpecLifecycleSeq == InitLifecycle /\ [][NextLifecycleSeq]_vars

----------------------------------------------------------------------------
(* What the claims speak of *)

RECURSIVE Units(_, _, _)
\* the units of product p in the first n line items of a list
Units(products, n, p) ==
  IF n = 0 THEN 0
  ELSE Units(products, n - 1, p)
       + (IF products[n].productId = p THEN products[n].quantity ELSE 0)

RECURSIVE Sold(_, _)
\* the units of product p in the line items of the first n stored transactions
Sold(p, n) ==
  IF n = 0 THEN 0
  ELSE Sold(p, n - 1)
       + Units(transactions[n].products, Len(transactions[n].products), p)

\* the stored transactions that reference voucher v
Redeemed(v) == {t \in 1..Len(transactions) : transactions[t].voucherId = v}

\* the status documents of transaction t
StatusesOf(t) == {d \in 1..Len(statuses) : statuses[d].transactionId = t}

AllFinished == \A r \in Slots : ~InFlight(r)
NoServerError == \A r \in Slots : req[r].result # "ServerError"

ValidationErrors ==
  {"ProductNotFound", "InsufficientStock", "VoucherInvalid",
   "VoucherThresholdNotMet", "CourierNotFound"}

\* slot r takes a step and the handler answers `result`
Answers(r, result) ==
  InFlight(r) /\ req'[r].pc = "done" /\ req'[r].result = result

----------------------------------------------------------------------------
(* C2: when checkouts that share a product interleave, then once all calls *)
(* have finished (none of them with a 500) the stock taken from every      *)
(* product equals the units of it in the line items of the stored          *)
(* transactions.                                                           *)
C2_NoOversell ==
  (AllFinished /\ NoServerError) =>
     \A p \in Products : InitStock[p] - stock[p] = Sold(p, Len(transactions))

(* C4: after any sequence of checkouts, a voucher's quantity has gone down *)
(* by the number of stored transactions that reference it.                 *)
C4_VoucherOncePerTransaction ==
  (AllFinished /\ NoServerError) =>
     \A v \in Vouchers :
        InitVoucherQty[v] - voucherQty[v] = Cardinality(Redeemed(v))

(* C5: a voucher's remaining quantity is never negative. *)
C5_VoucherQuantityNonNegative == \A v \in Vouchers : voucherQty[v] >= 0

(* C6: whenever no call is running, also after a call was aborted by a     *)
(* persistence failure, every stored transaction has exactly one status    *)
(* and every status belongs to a stored transaction.                       *)
C6_OneStatusPerTransaction ==
  AllFinished =>
     /\ \A t \in 1..Len(transactions) : Cardinality(StatusesOf(t)) = 1
     /\ \A d \in 1..Len(statuses) :
          statuses[d].transactionId \in 1..Len(transactions)

(* C8: when a checkout answers a validation error, stock, voucher          *)
(* quantities, transactions and statuses are what they were when the       *)
(* failing shop group began.                                               *)
C8_ErrorBeforeMutation ==
  [][\A r \in Slots :
       (\E e \in ValidationErrors : Answers(r, e)) =>
          /\ stock' = req[r].snap.stock
          /\ voucherQty' = req[r].snap.voucherQty
          /\ transactions' = req[r].snap.transactions
          /\ statuses' = req[r].snap.statuses]_vars

\* slot r is at Product.find for its group and the lookup answers
ProductsAnswered(r) ==
  /\ req[r].op = "create" /\ req[r].pc = "findProducts"
  /\ req'[r] # req[r]
  /\ ~Answers(r, "ServerError")

\* a line item of the group asks for more than the stored stock of its product
SomeItemShort(products) ==
  \E j \in 1..Len(products) :
     /\ products[j].productId \in Products
     /\ products[j].quantity > stock[products[j].productId]

\* the count check of line 29 passes for the group
CountCheckPasses(products) ==
  Cardinality({products[j].productId : j \in 1..Len(products)} \cap Products)
    = Len(products)

\* the transaction and the status of slot r's current group are stored
PairStored(r) ==
  /\ req[r].newTransaction \in 1..Len(transactions)
  /\ req[r].newStatus \in 1..Len(statuses)
  /\ statuses[req[r].newStatus].transactionId = req[r].newTransaction
  /\ transactions[req[r].newTransaction].products = req[r].shop.products

(* C9 as stated, on groups whose line items name existing or missing       *)
(* products, each at most once: a line item that asks for more than the    *)
(* stock makes the checkout fail with InsufficientStock.                   *)
C9_ShortItemAnswersInsufficientStock ==
  [][\A r \in Slots :
       LET products == req[r].shop.products IN
       ( /\ ProductsAnswered(r)
         /\ \A j, l \in 1..Len(products) :
              products[j].productId = products[l].productId => j = l
         /\ SomeItemShort(products) )
       => Answers(r, "InsufficientStock")]_vars

(* C9 amended: when the count check of line 29 passes for a shop group and *)
(* a line item asks for more than the stock, the checkout fails with       *)
(* InsufficientStock, no stock is changed and no transaction is created    *)
(* for the group; stock is written only when the group's transaction and   *)
(* status are both stored, and a call that ends before that leaves the     *)
(* stock as it was when the group began.                                   *)
C9_StockUntouchedUntilPairStored ==
  [][\A r \in Slots :
       /\ ( /\ ProductsAnswered(r)
            /\ CountCheckPasses(req[r].shop.products)
            /\ SomeItemShort(req[r].shop.products) )
          => /\ Answers(r, "InsufficientStock")
             /\ stock' = req[r].snap.stock
             /\ transactions' = req[r].snap.transactions
       /\ (req[r].op = "create" /\ req'[r] # req[r] /\ stock' # stock)
          => /\ req[r].pc = "saveStock"
             /\ PairStored(r)
       /\ ( /\ req[r].op = "create" /\ InFlight(r) /\ req'[r].pc = "done"
            /\ req[r].pc \in {"findProducts", "findVoucher", "saveVoucher",
                              "findCourier", "saveTransaction", "saveStatus"} )
          => stock' = req[r].snap.stock]_vars

\* a second group fails on its stock after the first group's stock was taken
C9_Witness ==
  \E r \in Slots :
     /\ req[r].pc = "done" /\ req[r].result = "InsufficientStock"
     /\ Len(req[r].out) = 1
     /\ stock # InitStock

\* the voucher of the call is absent, or usable with the threshold met
VoucherFine(v, products) ==
  \/ v = NoVoucher
  \/ /\ v \in Vouchers
     /\ VoucherRec[v].isActive
     /\ VoucherRec[v].expired >= Now
     /\ Subtotal(products, Len(products)) >= VoucherRec[v].minPurchase

\* subtotal - discount, not below zero, plus the courier cost
ExpectedTotal(v, courier, products) ==
  LET subtotal == Subtotal(products, Len(products))
      discount == IF v = NoVoucher THEN 0
                  ELSE (subtotal * VoucherRec[v].discount) \div 100
      net == IF subtotal - discount >= 0 THEN subtotal - discount ELSE 0
  IN  net + Cost[courier]

\* the group of slot r is valid: its products exist and the stock covers the
\* units asked of each, its voucher is fine, its courier exists
ValidGroup(r) ==
  LET products == req[r].shop.products IN
  /\ \A j \in 1..Len(products) : products[j].productId \in Products
  /\ \A p \in Products : Units(products, Len(products), p) <= stock[p]
  /\ VoucherFine(req[r].voucherId, products)
  /\ req[r].shop.courierId \in Couriers

(* C10: a valid shop group is not answered with a validation error; the    *)
(* pair pushed for it holds the group's transaction, whose totalPrice is   *)
(* max(subtotal - discount, 0) + courier cost; and the 201 answer holds    *)
(* one pair per shop group, in the order of the groups.                    *)
C10_ValidCheckoutPricedPerGroup ==
  [][\A r \in Slots :
       /\ ( /\ req[r].op = "create" /\ req'[r] # req[r]
            /\ req[r].pc \in {"findProducts", "findVoucher", "findCourier"}
            /\ ValidGroup(r) )
          => ~\E e \in ValidationErrors : Answers(r, e)
       /\ (req[r].op = "create" /\ req'[r].out # req[r].out)
          => /\ req'[r].out = Append(req[r].out,
                                     <<req[r].newTransaction, req[r].newStatus>>)
             /\ PairStored(r)
             /\ transactions[req[r].newTransaction].totalPrice
                  = ExpectedTotal(req[r].voucherId, req[r].shop.courierId,
                                  req[r].shop.products)
             /\ transactions[req[r].newTransaction].totalPrice
                  >= Cost[req[r].shop.courierId]
       /\ Answers(r, "Created")
          => /\ Len(req'[r].out) = req[r].k
             /\ \A j \in 1..Len(req'[r].out) :
                  transactions[req'[r].out[j][1]].shopId = j]_vars

----------------------------------------------------------------------------
(* Claims about the lifecycle *)

LegalTransitions ==
  {<<"Not Paid", "Paid">>, <<"Paid", "Processed">>, <<"Processed", "Completed">>}

(* C1: under any interleaving of Pay, Process and Complete calls, every    *)
(* change of a stored status is Not Paid -> Paid, Paid -> Processed or     *)
(* Processed -> Completed.                                                 *)
C1_StatusMovesOneStepForward ==
  [][\A d \in 1..Len(statuses) :
       statuses'[d].status # statuses[d].status =>
          <<statuses[d].status, statuses'[d].status>> \in LegalTransitions]_vars

RECURSIVE PaidTotal(_)
\* the sum of totalPrice over the first n transactions whose status is Paid,
\* Processed or Completed
PaidTotal(n) ==
  IF n = 0 THEN 0
  ELSE PaidTotal(n - 1)
       + (IF \E d \in StatusesOf(n) :
               statuses[d].status \in {"Paid", "Processed", "Completed"}
          THEN transactions[n].totalPrice ELSE 0)

\* the credit taken from the payment methods since the start
Debited ==
  LET RECURSIVE Sum(_)
      Sum(S) == IF S = {} THEN 0
                ELSE LET m == CHOOSE x \in S : TRUE
                     IN  (InitCredit[m] - credit[m]) + Sum(S \ {m})
  IN  Sum(PaymentMethods)

(* C3: under any interleaving of Pay calls, once all calls have finished   *)
(* (none of them with a 500) the credit debited from the payment methods   *)
(* equals the sum of totalPrice over the paid transactions.                *)
C3_DebitedOncePerPaidTransaction ==
  (AllFinished /\ NoServerError /\ \A r \in Slots : req[r].op \in {"idle", "pay"})
     => Debited = PaidTotal(Len(transactions))

\* the first two calls are Pay calls on the same stored transaction, the first
\* with a payment method whose credit covers the total; both have answered,
\* neither with a 500, and no later call has arrived
PaidTwice ==
  /\ 2 \in Slots
  /\ req[1].op = "pay" /\ req[1].pc = "done" /\ req[1].result # "ServerError"
  /\ req[2].op = "pay" /\ req[2].pc = "done" /\ req[2].result # "ServerError"
  /\ \A r \in Slots : r > 2 => req[r].pc = "idle"
  /\ req[1].transactionId \in 1..Len(transactions)
  /\ req[2].transactionId = req[1].transactionId
  /\ req[1].paymentId \in PaymentMethods
  /\ InitCredit[req[1].paymentId] >= transactions[req[1].transactionId].totalPrice

(* C7: Pay invoked twice, one call after the other, on a Not Paid          *)
(* transaction whose payment method covers the total: the first call       *)
(* answers Paid, the second answers that the transaction is already Paid,  *)
(* the status is Paid and the credit of the payment method has gone down   *)
(* by the total once, no other credit has changed.                         *)
C7_PayTwiceDebitsOnce ==
  PaidTwice =>
     /\ req[1].result = "Paid"
     /\ req[2].result = "AlreadyPaid"
     /\ \A d \in StatusesOf(req[1].transactionId) : statuses[d].status = "Paid"
     /\ credit = [InitCredit EXCEPT ![req[1].paymentId] =
                     @ - transactions[req[1].transactionId].totalPrice]

\* the second Pay names another payment method than the first
C7_Witness ==
  /\ PaidTwice
  /\ req[1].result = "Paid"
  /\ req[2].paymentId \in PaymentMethods \ {req[1].paymentId}

----------------------------------------------------------------------------
\* the stored transactions hold more units of product p than were in stock
Oversold(p) == Sold(p, Len(transactions)) > InitStock[p]

(* C11: in every reachable state, whatever the interleaving of checkouts    *)
(* with line-item quantities of at least one, the stored stock of every     *)
(* product is at least zero.                                                *)
C11_StockNonNegative == \A p \in Products : stock[p] >= 0

\* interleaved checkouts have stored transactions for more units of a
\* product than were in stock, all calls have finished, its stock is zero
C11_Witness ==
  /\ AllFinished /\ NoServerError
  /\ \E p \in Products : Oversold(p) /\ stock[p] = 0

----------------------------------------------------------------------------
\* slot r is a running Pay call on a stored transaction that is Not Paid
PayOnNotPaid(r) ==
  /\ req[r].op = "pay" /\ InFlight(r)
  /\ req[r].transactionId \in 1..Len(transactions)
  /\ StatusesOf(req[r].transactionId) # {}
  /\ \A d \in StatusesOf(req[r].transactionId) : statuses[d].status = "Not Paid"

\* the payment method slot r names exists and, the call not having got to
\* its debit yet, holds less than the total
ShortOfCredit(r) ==
  /\ req[r].pc \in {"findStatus", "findTransaction", "findPayment"}
  /\ req[r].paymentId \in PaymentMethods
  /\ credit[req[r].paymentId] < transactions[req[r].transactionId].totalPrice

(* C12: a Pay call on a Not Paid transaction with a payment method whose    *)
(* credit is below the total never gets to a save: no step of the call      *)
(* changes the stored credit or status, and the only answer it gives (a     *)
(* rejected database operation aside) is InsufficientCredit.                *)
C12_InsufficientCreditLeavesAllUnchanged ==
  [][\A r \in Slots :
       (PayOnNotPaid(r) /\ ShortOfCredit(r) /\ req'[r] # req[r]) =>
          /\ db' = db
          /\ IF req'[r].pc = "done"
               THEN req'[r].result \in {"InsufficientCredit", "ServerError"}
               ELSE req'[r].pc \in {"findTransaction", "findPayment"}]_vars

\* a Pay call has answered InsufficientCredit; credit and status are as seeded
C12_Witness ==
  /\ \E r \in Slots : /\ req[r].op = "pay" /\ req[r].pc = "done"
                       /\ req[r].result = "InsufficientCredit"
                       /\ req[r].paymentId \in PaymentMethods
  /\ credit = InitCredit
  /\ \A d \in 1..Len(statuses) : statuses[d].status = "Not Paid"

----------------------------------------------------------------------------
\* slot r is a running call on a stored transaction that has a status
OnStored(r) ==
  /\ InFlight(r)
  /\ req[r].transactionId \in 1..Len(transactions)
  /\ StatusesOf(req[r].transactionId) # {}

\* the stored status of the transaction slot r names
CurrentStatus(r) == statuses[FindStatus(req[r].transactionId)].status

\* the status an operation requires and the status it sets
Required(op) == IF op = "pay" THEN "Not Paid"
                ELSE IF op = "process" THEN "Paid" ELSE "Processed"
Target(op) == IF op = "pay" THEN "Paid"
              ELSE IF op = "process" THEN "Processed" ELSE "Completed"

\* the 400 answers of Process and Complete to a wrong lifecycle state
InvalidStateErrors == {"MustBePaid", "MustBeProcessed", "AlreadyCompleted"}

\* the caller of a Process owns the shop of the transaction; Complete asks
\* nothing of its caller
OwnerCalls(r) ==
  req[r].op = "process" => ShopOf[req[r].userId] = transactions[req[r].transactionId].shopId

\* a step of a Process or Complete call writes the status only from the
\* required state, and then writes the target state
WritesOnlyFromRequired(r) ==
  statuses' # statuses =>
     /\ CurrentStatus(r) = Required(req[r].op)
     /\ statuses' = [statuses EXCEPT
                       ![FindStatus(req[r].transactionId)].status = Target(req[r].op)]

\* a step of a call in a wrong state writes nothing and, if it answers,
\* answers an invalid-state error (a rejected database operation aside)
RejectsWrongState(r) ==
  CurrentStatus(r) # Required(req[r].op) =>
     /\ db' = db
     /\ req'[r].pc = "done" =>
          req'[r].result \in InvalidStateErrors \cup {"ServerError"}

(* C13 as stated: Process writes the status only from Paid and Complete     *)
(* only from Processed; called in any other state, by any caller, the       *)
(* operation writes nothing and answers an invalid-state error.             *)
C13_WrongStateAnswersInvalidState ==
  [][\A r \in Slots :
       (req[r].op \in {"process", "complete"} /\ OnStored(r) /\ req'[r] # req[r]) =>
          WritesOnlyFromRequired(r) /\ RejectsWrongState(r)]_vars

(* C13, amended: Process writes the status only from Paid and Complete only *)
(* from Processed; in any other state no step of the call writes the status *)
(* or a credit, and a Process called by the owner of the transaction's      *)
(* shop, or a Complete, answers an invalid-state error.                     *)
C13_WrongStateRejectedForOwner ==
  [][\A r \in Slots :
       (req[r].op \in {"process", "complete"} /\ OnStored(r) /\ req'[r] # req[r]) =>
          /\ WritesOnlyFromRequired(r)
          /\ CurrentStatus(r) # Required(req[r].op) => db' = db
          /\ OwnerCalls(r) => RejectsWrongState(r)]_vars

\* Complete on a Not Paid transaction and Process by the shop's owner on a
\* Not Paid transaction have both been rejected; nothing stored has changed
C13_Witness ==
  /\ \E r \in Slots : /\ req[r].op = "complete" /\ req[r].pc = "done"
                       /\ req[r].result = "MustBeProcessed"
  /\ \E r \in Slots : /\ req[r].op = "process" /\ req[r].pc = "done"
                       /\ req[r].result = "MustBePaid"
  /\ credit = InitCredit
  /\ \A d \in 1..Len(statuses) : statuses[d].status = "Not Paid"

----------------------------------------------------------------------------
\* the answer of lines 133, 198 and 272: what an operation says when the
\* transaction is in a wrong state other than the operation's target
InvalidStateAnswer(op) ==
  IF op = "pay" THEN "MustBeNotPaid"
  ELSE IF op = "process" THEN "MustBePaid" ELSE "MustBeProcessed"

\* the answers with status 200
Successes == {"Paid", "Processed", "Completed"}

(* C14: a Pay, Process (by the shop's owner) or Complete call on a          *)
(* transaction whose status is already the operation's target answers an    *)
(* error that is not the invalid-state answer the same operation gives in   *)
(* the other wrong states.                                                  *)
C14_AlreadyInTargetIsDistinct ==
  [][\A r \in Slots :
       (/\ OnStored(r) /\ OwnerCalls(r)
        /\ CurrentStatus(r) = Target(req[r].op)
        /\ req'[r].pc = "done" /\ req'[r].result # "ServerError") =>
          /\ req'[r].result \notin Successes
          /\ req'[r].result # InvalidStateAnswer(req[r].op)]_vars

----------------------------------------------------------------------------
\* slot r is a running Process call on a stored transaction by a user who
\* owns no shop or a shop other than the transaction's
StrangerProcesses(r) ==
  /\ req[r].op = "process" /\ InFlight(r)
  /\ req[r].transactionId \in 1..Len(transactions)
  /\ ShopOf[req[r].userId] # transactions[req[r].transactionId].shopId

(* C15: no step of a Process call by a user who does not own the            *)
(* transaction's shop writes a status, whatever the status is and whatever  *)
(* other calls interleave; the call never gets to the status lookup and     *)
(* answers an error.  So a status moves to Processed only for the owner.    *)
C15_ProcessOnlyByShopOwner ==
  [][\A r \in Slots :
       (StrangerProcesses(r) /\ req'[r] # req[r]) =>
          /\ statuses' = statuses
          /\ IF req'[r].pc = "done"
               THEN req'[r].result \in {"ShopNotFound", "Forbidden", "ServerError"}
               ELSE req'[r].pc = "findTransaction"]_vars

\* a Paid transaction, and a Process call by the owner of another shop that
\* was answered 403 while it stayed Paid
C15_Witness ==
  /\ \E r \in Slots : /\ req[r].op = "process" /\ req[r].pc = "done"
                       /\ req[r].result = "Forbidden"
                       /\ req[r].transactionId \in 1..Len(transactions)
                       /\ \A d \in StatusesOf(req[r].transactionId) :
                            statuses[d].status = "Paid"
  /\ \A r \in Slots : req[r].op = "process" => req[r].result = "Forbidden"

----------------------------------------------------------------------------
\* the stored vouchers that are inactive or have expired
Lapsed == {v \in Vouchers : ~VoucherRec[v].isActive \/ VoucherRec[v].expired < Now}

\* slot r is a running checkout that references a lapsed voucher
UsesLapsed(r) ==
  req[r].op = "create" /\ InFlight(r) /\ req[r].voucherId \in Lapsed

----------------------------------------------------------------------------
\* lines 30, 38, 50, 53, 68 and 109-112: the transaction list is in the body
\* of the 201 answer only; the error answers carry a message
Listed(call) == IF call.result = "Created" THEN call.out ELSE <<>>

\* the pairs slot r has pushed are stored, each status with its transaction
PairsPersisted(r) ==
  \A j \in 1..Len(req[r].out) :
     /\ req[r].out[j][1] \in 1..Len(transactions')
     /\ req[r].out[j][2] \in 1..Len(statuses')
     /\ statuses'[req[r].out[j][2]].transactionId = req[r].out[j][1]

(* C17: when a checkout answers a validation error in shop group k, the     *)
(* answer carries no transaction list and the step writes nothing; the k-1  *)
(* pairs of the earlier groups stay stored; for the first checkout, exactly *)
(* k-1 transactions and statuses are stored, the stock is down by the units *)
(* in them and each voucher by at least the transactions that reference    *)
(* it.  A call that has answered takes no further step.                     *)
C17_EarlierGroupsPersist ==
  [][/\ \A r \in Slots :
          (\E e \in ValidationErrors : Answers(r, e)) =>
             /\ Listed(req'[r]) = <<>>
             /\ db' = db
             /\ Len(req[r].out) = req[r].k - 1
             /\ PairsPersisted(r)
             /\ (r = 1 /\ \A q \in Slots \ {1} : req[q].pc = "idle") =>
                  /\ Len(transactions') = req[r].k - 1
                  /\ Len(statuses') = req[r].k - 1
                  /\ \A p \in Products :
                       stock'[p] = InitStock[p]
                                     - Sold(p, Len(transactions))
                  /\ \A v \in Vouchers :
                       InitVoucherQty[v] - voucherQty'[v] >= Cardinality(Redeemed(v))
     /\ \A r \in Slots : req[r].pc = "done" => req'[r] = req[r]]_vars

\* the first checkout redeemed voucher v1 in its first group and failed the
\* voucher's threshold in its second: one pair, the stock and the voucher
\* of the first group stay as written
C17_Witness ==
  /\ req[1].op = "create" /\ req[1].pc = "done"
  /\ req[1].result = "VoucherThresholdNotMet"
  /\ Len(req[1].out) = 1
  /\ Len(transactions) = 1 /\ Len(statuses) = 1
  /\ stock # InitStock
  /\ voucherQty["v1"] = 0

----------------------------------------------------------------------------
\* the distinct product ids a group asks for
Requested(products) == {products[j].productId : j \in 1..Len(products)}

(* C18: when Product.find answers for a shop group, the group is rejected   *)
(* with ProductNotFound exactly when the number of distinct product ids it  *)
(* asks for differs from the number of stored products among them, that     *)
(* is, exactly when one of its product ids names no stored product.         *)
C18_ProductNotFoundIffUnresolved ==
  [][\A r \in Slots :
       ProductsAnswered(r) =>
          (Answers(r, "ProductNotFound")
             <=> Cardinality(Requested(req[r].shop.products))
                   # Cardinality(Requested(req[r].shop.products) \cap Products))]_vars

----------------------------------------------------------------------------
\* slot r is a Pay call that takes a step
PayStep(r) == req[r].op = "pay" /\ InFlight(r) /\ req'[r] # req[r]

(* C19: a Pay call writes no transaction, stock or voucher quantity and no  *)
(* credit but that of the payment method named in the call; it answers 200  *)
(* only after its debit step, and that step takes the transaction's total   *)
(* off that payment method, whichever payment method the transaction        *)
(* records.                                                                 *)
C19_PayTouchesOnlyNamedPaymentMethod ==
  [][\A r \in Slots :
       PayStep(r) =>
          /\ transactions' = transactions
          /\ stock' = stock
          /\ voucherQty' = voucherQty
          /\ \A m \in PaymentMethods \ {req[r].paymentId} : credit'[m] = credit[m]
          /\ Answers(r, "Paid") => req[r].pc = "saveStatus" /\ credit' = credit
          /\ req'[r].pc = "saveStatus" =>
               /\ req[r].pc = "savePayment"
               /\ credit' = [credit EXCEPT ![req[r].paymentId] =
                                @ - transactions[req[r].transactionId].totalPrice]]_vars

\* a Pay with pm2 of a transaction that records pm1 has succeeded: pm2 is
\* down by the total, pm1 is untouched
C19_Witness ==
  \E r \in Slots :
     /\ req[r].op = "pay" /\ req[r].pc = "done" /\ req[r].result = "Paid"
     /\ req[r].paymentId = "pm2"
     /\ transactions[req[r].transactionId].paymentId = "pm1"
     /\ credit = [InitCredit EXCEPT !["pm2"] =
                     @ - transactions[req[r].transactionId].totalPrice]

----------------------------------------------------------------------------
\* a step writes Paid into a status that was not Paid
BecomesPaid ==
  \E d \in 1..Len(statuses) :
     statuses[d].status # "Paid" /\ statuses'[d].status = "Paid"

\* a Pay call stands between its two saves, or was aborted by a 500
DebitInDoubt ==
  \E r \in Slots :
     /\ req[r].op = "pay"
     /\ req[r].pc = "saveStatus" \/ req[r].result = "ServerError"

(* C20: with calls that run one after another, in every reachable state,   *)
(* also after a Pay was aborted between its                                 *)
(* two saves, the credit debited so far covers the totals of the            *)
(* transactions that are Paid, Processed or Completed, and more than that   *)
(* has been debited only while a Pay stands between its saves or after a    *)
(* Pay answered 500.  A status is written Paid only by the last step of a   *)
(* Pay, and a Pay gets to that step only through the step that saves the    *)
(* debit of the transaction's total.                                        *)
C20_DebitWrittenBeforePaid ==
  /\ [](/\ Debited >= PaidTotal(Len(transactions))
        /\ Debited > PaidTotal(Len(transactions)) => DebitInDoubt)
  /\ [][\A r \in Slots :
          (InFlight(r) /\ req'[r] # req[r]) =>
             /\ BecomesPaid => req[r].op = "pay" /\ req[r].pc = "saveStatus"
             /\ (req[r].op = "pay" /\ req'[r].pc = "saveStatus") =>
                  /\ req[r].pc = "savePayment"
                  /\ credit'[req[r].paymentId] =
                       credit[req[r].paymentId]
                         - transactions[req[r].transactionId].totalPrice]_vars

\* a Pay was aborted after its debit and a later Pay succeeded: the
\* transaction is Paid and its total has been debited more than once
C20_Witness ==
  /\ \E r \in Slots : req[r].op = "pay" /\ req[r].result = "ServerError"
  /\ \E r \in Slots : req[r].op = "pay" /\ req[r].result = "Paid"
  /\ PaidTotal(Len(transactions)) > 0
  /\ Debited > PaidTotal(Len(transactions))

====
